---- MODULE Spec2Model ----
(***************************************************************************)
(* Model of the Gemini glue scripts of StreamSniped-Agent:                 *)
(*   clip_generation/gemini_refiner.py   _format_transcript_window,        *)
(*                                       call_gemini_flash,                *)
(*                                       refine_clip_boundaries            *)
(*   src/transcription/gemini_client.py  transcribe_audio_file             *)
(*   test_gemini_face_crop.py            _extract_json_object,             *)
(*                                       test_gemini_crop_single,          *)
(*                                       test_multiple_images              *)
(*   clip_generation/test_audio_refiner.py  download_audio_segment         *)
(* Times are whole seconds.  Strings are sequences of one-character        *)
(* strings, so that strip(), len() and the "(12.0s) text" formatting are   *)
(* computed and not assumed.                                               *)
(***************************************************************************)
EXTENDS Integers, Sequences, FiniteSets, TLC

VARIABLES
    \* a direct call of _format_transcript_window
    fpc, fdocs, fstart, fend, fchunk, flines, formatted

VARIABLES
    \* one invocation of refine_clip_boundaries
    pc, docs, initial_start, initial_end, anchor_time, transcript_text, prompt,
    response_json, ret_start, ret_end, meta, raised, calls, requests, console

VARIABLES
    \* one invocation of transcribe_audio_file
    tpc, file_state, polls, uploaded, generate_requests, response_text, tsegments,
    delete_attempts, deleted, result, traised, tlog

VARIABLES
    \* one run of test_multiple_images and the call of test_gemini_crop_single
    \* it is in
    bpc, image, results_summary, files,
    cpc, attempt, ccalls, modes, bbox, box, cconsole

VARIABLES
    \* the bounding-box clamp applied to a box, and applied again
    kpc, kbox, kclamped, kagain

VARIABLES
    \* one invocation of download_audio_segment
    dpc, dvod, dstart, dend, dfile, cmd, runs, outcomes, dreturn

fvars == <<fpc, fdocs, fstart, fend, fchunk, flines, formatted>>
rvars == <<pc, docs, initial_start, initial_end, anchor_time, transcript_text, prompt,
           response_json, ret_start, ret_end, meta, raised, calls, requests, console>>
tvars == <<tpc, file_state, polls, uploaded, generate_requests, response_text, tsegments,
           delete_attempts, deleted, result, traised, tlog>>
cvars == <<bpc, image, results_summary, files,
           cpc, attempt, ccalls, modes, bbox, box, cconsole>>
kvars == <<kpc, kbox, kclamped, kagain>>
dvars == <<dpc, dvod, dstart, dend, dfile, cmd, runs, outcomes, dreturn>>
\* the variables of the test scripts
ovars == <<cvars, kvars, dvars>>
vars == <<fvars, rvars, tvars, ovars>>

\* ------------------------------------------------------------------------
\* Bounds of the model
\* ------------------------------------------------------------------------
MaxDocs == 3
MaxTime == 3
MaxPolls == 2
MaxTokens == 3
MaxReplyTokens == 2
Unit == 2

\* ------------------------------------------------------------------------
\* Python values and string helpers
\* ------------------------------------------------------------------------
PyNone == <<"None">>

RECURSIVE Rep(_, _)
Rep(c, n) == IF n <= 0 THEN <<>> ELSE <<c>> \o Rep(c, n - 1)

RECURSIVE LStrip(_)
LStrip(s) == IF s # <<>> /\ Head(s) = " " THEN LStrip(Tail(s)) ELSE s

RECURSIVE RStrip(_)
RStrip(s) ==
    IF s # <<>> /\ s[Len(s)] = " " THEN RStrip(SubSeq(s, 1, Len(s) - 1)) ELSE s

\* (d.text or "").strip()
StripText(t) == LStrip(RStrip(IF t = PyNone THEN <<>> ELSE t))

DigitChar(n) ==
    CASE n = 0 -> "0" [] n = 1 -> "1" [] n = 2 -> "2" [] n = 3 -> "3"
      [] n = 4 -> "4" [] n = 5 -> "5" [] n = 6 -> "6" [] n = 7 -> "7"
      [] n = 8 -> "8" [] n = 9 -> "9"

RECURSIVE Digits(_)
Digits(n) == IF n < 10 THEN <<DigitChar(n)>>
             ELSE Digits(n \div 10) \o <<DigitChar(n % 10)>>

\* f"{x:.1f}" of a whole number of seconds
FormatOneDecimal(x) ==
    (IF x < 0 THEN <<"-">> \o Digits(0 - x) ELSE Digits(x)) \o <<".", "0">>

RECURSIVE Join(_, _)
Join(sep, parts) ==
    IF parts = <<>> THEN <<>>
    ELSE IF Len(parts) = 1 THEN parts[1]
    ELSE parts[1] \o sep \o Join(sep, Tail(parts))

\* ------------------------------------------------------------------------
\* _format_transcript_window
\* ------------------------------------------------------------------------
default_chunk_size_seconds == 10

\* a filter that forgets the lower edge of the window
relevant_docs_no_lower_edge(segments, start_window, end_window) ==
    SelectSeq(segments, LAMBDA d : d.start <= end_window)

\* relevant_docs = [d for d in docs if d.end >= start_window and d.start <= end_window]
relevant_docs(segments, start_window, end_window) ==
    SelectSeq(segments, LAMBDA d : d.end >= start_window /\ d.start <= end_window)

\* One emitted block: its printed start, the stripped texts joined into it and
\* the source segments those texts came from.
Block(start, texts, segs) == [start |-> start, texts |-> texts, segs |-> segs]

\* the "flush the buffer" test of the loop body
ShouldFlush(d, current_block_start, current_block_text, chunk_size_seconds) ==
    (d.end - current_block_start) > chunk_size_seconds /\ current_block_text # <<>>

\* the for loop over relevant_docs and the final flush; st carries the locals
\* lines, current_block_text (with the segments it was taken from) and
\* current_block_start
RECURSIVE FormatLoop(_, _, _)
FormatLoop(rel, chunk_size_seconds, st) ==
    IF rel = <<>>
    THEN IF st.text # <<>>
         THEN Append(st.lines, Block(st.start, st.text, st.segs))
         ELSE st.lines
    ELSE LET d    == Head(rel)
             text == StripText(d.text)
         IN  IF text = <<>>
             THEN FormatLoop(Tail(rel), chunk_size_seconds, st)
             ELSE IF ShouldFlush(d, st.start, st.text, chunk_size_seconds)
                  THEN FormatLoop(Tail(rel), chunk_size_seconds,
                           [lines |-> Append(st.lines, Block(st.start, st.text, st.segs)),
                            text  |-> <<text>>,
                            segs  |-> <<d>>,
                            start |-> d.start])
                  ELSE FormatLoop(Tail(rel), chunk_size_seconds,
                           [st EXCEPT !.text = Append(@, text),
                                      !.segs = Append(@, d)])

\* the list `lines` at the end of _format_transcript_window
FormatBlocks(segments, start_window, end_window, chunk_size_seconds) ==
    LET rel == relevant_docs(segments, start_window, end_window)
    IN  IF rel = <<>> THEN <<>>
        ELSE FormatLoop(rel, chunk_size_seconds,
                 [lines |-> <<>>, text |-> <<>>, segs |-> <<>>, start |-> rel[1].start])

\* f"({current_block_start:.1f}s) {block_content}"
BlockLine(b) ==
    <<"(">> \o FormatOneDecimal(b.start) \o <<"s", ")", " ">> \o Join(<<" ">>, b.texts)

\* "\n".join(lines)
_format_transcript_window(segments, start_window, end_window, chunk_size_seconds) ==
    LET blocks == FormatBlocks(segments, start_window, end_window, chunk_size_seconds)
    IN  Join(<<"\n">>, [i \in 1..Len(blocks) |-> BlockLine(blocks[i])])

\* ------------------------------------------------------------------------
\* JSON values, json.loads, dict.get and float() as refine_clip_boundaries
\* uses them
\* ------------------------------------------------------------------------
JNum(n) == <<"num", n>>          \* a JSON number
JNumStr(n) == <<"numstr", n>>    \* a JSON string that spells a number, "10"
JStr(s) == <<"str", s>>          \* any other JSON string
JNull == PyNone                  \* null loads as None
JArray == <<"array">>            \* a JSON array
Absent == <<"absent">>           \* the key is not in the object
JObject(st, et, reasoning, title, category) ==
    <<"object", [start_time |-> st, end_time |-> et, reasoning |-> reasoning,
                 title |-> title, category |-> category]>>

\* the text the model returned: "", None, text that is no JSON, or JSON
EmptyText == [kind |-> "empty"]
NoText == [kind |-> "none"]
GarbageText == [kind |-> "garbage"]
JsonText(v) == [kind |-> "json", value |-> v]

Ok(v) == [exc |-> "none", value |-> v]
Raise(e) == [exc |-> e, value |-> PyNone]

\* json.loads(response_json)
json_loads(text) ==
    IF text.kind = "json" THEN Ok(text.value) ELSE Raise("JSONDecodeError")

IsObject(data) == data[1] = "object"

\* data.get(key, default) on a dict
dict_get(data, key, default) ==
    IF data[2][key] = Absent THEN default ELSE data[2][key]

\* float(v)
float(v) ==
    CASE v[1] = "num" -> Ok(v[2])
      [] v[1] = "numstr" -> Ok(v[2])
      [] v[1] = "str" -> Raise("ValueError")
      [] OTHER -> Raise("TypeError")

\* abs(a - b)
abs_diff(a, b) == IF a >= b THEN a - b ELSE b - a

\* ------------------------------------------------------------------------
\* refine_clip_boundaries
\* ------------------------------------------------------------------------
context_pad == 160
min_transcript_len == 50
max_anchor_distance == 180

Max(a, b) == IF a >= b THEN a ELSE b

\* window_start = max(0.0, initial_start - context_pad)
window_start(is) == Max(0, is - context_pad)
\* window_end = initial_end + context_pad
window_end(ie) == ie + context_pad

\* a guard that only looks for the empty string
too_short_only_empty(text) == text = <<>>

\* if not transcript_text or len(transcript_text) < 50
too_short(text) == text = <<>> \/ Len(text) < min_transcript_len

TwoDigits(n) == IF n < 10 THEN <<"0">> \o Digits(n) ELSE Digits(n)
\* f"{int(anchor_time // 60):02d}:{int(anchor_time % 60):02d}"
anchor_str(t) == TwoDigits(t \div 60) \o <<":">> \o TwoDigits(t % 60)

\* if not response_json
falsy(text) == text.kind \in {"empty", "none"}

Meta1(k, v) == k :> v
Return(s, e, m) == [exc |-> "none", start |-> s, end |-> e, meta |-> m]
Throw(x) == [exc |-> x, start |-> 0, end |-> 0, meta |-> <<>>]

\* a rejection test that looks at start_time only
is_rejected_start_only(ref_start, ref_end) == ref_start < 0

\* if ref_start < 0 or ref_end < 0
is_rejected(ref_start, ref_end) == ref_start < 0 \/ ref_end < 0

\* an ordering test that lets a zero-width window through
is_invalid_strict(ref_start, ref_end) == ref_end < ref_start

\* if ref_end <= ref_start
is_invalid(ref_start, ref_end) == ref_end <= ref_start

\* a guard that checks the distance of the start only
is_hallucinated_start_only(ref_start, ref_end, anchor) ==
    abs_diff(ref_start, anchor) > max_anchor_distance

\* if abs(ref_start - anchor_time) > 180 or abs(ref_end - anchor_time) > 180
is_hallucinated(ref_start, ref_end, anchor) ==
    \/ abs_diff(ref_start, anchor) > max_anchor_distance
    \/ abs_diff(ref_end, anchor) > max_anchor_distance

\* an accepted window with its boundaries swapped
refined_swapped(ref_start, ref_end, data) ==
    Return(ref_end, ref_start,
           ("status" :> <<"refined">>) @@ ("title" :> dict_get(data, "title", PyNone))
           @@ ("category" :> dict_get(data, "category", PyNone))
           @@ ("reasoning" :> dict_get(data, "reasoning", PyNone)))

\* return ref_start, ref_end, {"status": "refined", "title": ..., ...}
refined(ref_start, ref_end, data) ==
    Return(ref_start, ref_end,
           ("status" :> <<"refined">>) @@ ("title" :> dict_get(data, "title", PyNone))
           @@ ("category" :> dict_get(data, "category", PyNone))
           @@ ("reasoning" :> dict_get(data, "reasoning", PyNone)))

\* a validation that tests the order of the boundaries before their sign
validate_order_first(ref_start, ref_end, data, is, ie, anchor) ==
    IF is_invalid(ref_start, ref_end)
    THEN Return(is, ie, Meta1("error", <<"invalid_timestamps">>))
    ELSE IF is_rejected(ref_start, ref_end)
    THEN Return(is, ie, ("status" :> <<"rejected_by_llm">>)
                        @@ ("reason" :> dict_get(data, "reasoning", PyNone)))
    ELSE IF is_hallucinated(ref_start, ref_end, anchor)
    THEN Return(is, ie, Meta1("error", <<"hallucinated_timestamps">>))
    ELSE refined(ref_start, ref_end, data)

\* the validation of the two converted boundaries (lines 178-194)
validate(ref_start, ref_end, data, is, ie, anchor) ==
    IF is_rejected(ref_start, ref_end)
    THEN Return(is, ie, ("status" :> <<"rejected_by_llm">>)
                        @@ ("reason" :> dict_get(data, "reasoning", PyNone)))
    ELSE IF is_invalid(ref_start, ref_end)
    THEN Return(is, ie, Meta1("error", <<"invalid_timestamps">>))
    ELSE IF is_hallucinated(ref_start, ref_end, anchor)
    THEN Return(is, ie, Meta1("error", <<"hallucinated_timestamps">>))
    ELSE refined(ref_start, ref_end, data)

\* the body of the try block (lines 173-194): what it returns, or what it throws
try_body(text, is, ie, anchor) ==
    LET parsed == json_loads(text)
    IN  IF parsed.exc # "none" THEN Throw(parsed.exc)
        ELSE LET data == parsed.value
             IN  IF ~IsObject(data) THEN Throw("AttributeError")
                 ELSE LET fs == float(dict_get(data, "start_time", JNum(-1)))
                      IN  IF fs.exc # "none" THEN Throw(fs.exc)
                          ELSE LET fe == float(dict_get(data, "end_time", JNum(-1)))
                               IN  IF fe.exc # "none" THEN Throw(fe.exc)
                                   ELSE validate(fs.value, fe.value, data, is, ie, anchor)

\* a handler that catches the decode error only
catches_decode_error_only(exc) == exc = "JSONDecodeError"

\* except Exception as e: every exception the try block can throw is caught
catches(exc) == TRUE

\* lines 168-198: the check of the reply, the try block and its handler
after_call(text, is, ie, anchor) ==
    IF falsy(text) THEN Return(is, ie, Meta1("error", <<"llm_call_failed">>))
    ELSE LET r == try_body(text, is, ie, anchor)
         IN  IF r.exc = "none" THEN r
             ELSE IF catches(r.exc)
                  THEN Return(is, ie, Meta1("error", <<"json_parse_error">>))
                  ELSE r

\* the except clause ran: the try block threw and the handler caught it
handled(text, is, ie, anchor) ==
    ~falsy(text) /\ try_body(text, is, ie, anchor).exc # "none"
                 /\ catches(try_body(text, is, ie, anchor).exc)

\* ------------------------------------------------------------------------
\* Specification Spec: one invocation of refine_clip_boundaries, with every
\* outcome of call_gemini_flash
\* ------------------------------------------------------------------------
RefineDocLists ==
    { <<>>,
      <<[start |-> 0, end |-> 5, text |-> Rep("a", 42)]>>,
      <<[start |-> 0, end |-> 5, text |-> Rep("a", 43)]>>,
      <<[start |-> 0, end |-> 5, text |-> <<" ">> \o Rep("a", 30)],
        [start |-> 5, end |-> 12, text |-> Rep("b", 30) \o <<" ">>],
        [start |-> 12, end |-> 20, text |-> <<" ">>],
        [start |-> 40, end |-> 48, text |-> Rep("c", 50)]>>,
      <<[start |-> 1000, end |-> 1005, text |-> Rep("a", 60)]>> }

\* heuristic windows <<initial_start, initial_end>>, well-formed, zero-width
\* and inverted
RefineWindows == { <<0, 10>>, <<10, 50>>, <<10, 10>>, <<50, 10>>, <<200, 260>> }
RefineAnchors == { 30, 190, 200 }

ResponseTimes == { -1, 0, 10, 50, 210, 211 }
ResponseValues ==
    {Absent, JNull, JStr("abc"), JNumStr(10)} \cup {JNum(n) : n \in ResponseTimes}
ResponseObjects ==
    { JObject(st, et, re, tc[1], tc[2]) :
        st \in ResponseValues, et \in ResponseValues,
        re \in {Absent, JStr("x")},
        tc \in {<<Absent, Absent>>, <<JStr("t"), JStr("c")>>} }
ResponseTexts ==
    {EmptyText, NoText, GarbageText, JsonText(JArray), JsonText(JNull), JsonText(JNum(0))}
    \cup {JsonText(o) : o \in ResponseObjects}

\* no direct call of the formatter is in progress
FormatIdle ==
    /\ fpc = "idle" /\ fdocs = <<>> /\ fstart = 0 /\ fend = 0
    /\ fchunk = default_chunk_size_seconds
    /\ flines = <<>> /\ formatted = <<>>

\* no call of transcribe_audio_file is in progress
TranscribeIdle ==
    /\ tpc = "idle" /\ file_state = "NONE" /\ polls = 0 /\ uploaded = FALSE
    /\ generate_requests = 0 /\ response_text = <<>> /\ tsegments = <<>>
    /\ delete_attempts = 0 /\ deleted = FALSE /\ result = <<>>
    /\ traised = "none" /\ tlog = <<>>

\* no run of test_multiple_images is in progress
CropIdle ==
    /\ bpc = "idle" /\ image = 0 /\ results_summary = <<>> /\ files = {}
    /\ cpc = "idle" /\ attempt = 0 /\ ccalls = 0 /\ modes = <<>>
    /\ bbox = PyNone /\ box = <<>> /\ cconsole = "none"

\* no box is being clamped
ClampIdle ==
    /\ kpc = "idle" /\ kbox = <<>> /\ kclamped = <<>> /\ kagain = <<>>

\* no call of download_audio_segment is in progress
DownloadIdle ==
    /\ dpc = "idle" /\ dvod = <<>> /\ dstart = 0 /\ dend = 0 /\ dfile = FALSE
    /\ cmd = <<>> /\ runs = <<>> /\ outcomes = <<>> /\ dreturn = "none"

\* none of the test scripts is running
ScriptsIdle == CropIdle /\ ClampIdle /\ DownloadIdle

\* no call of refine_clip_boundaries is in progress
RefineIdle ==
    /\ pc = "idle" /\ docs = <<>> /\ initial_start = 0 /\ initial_end = 0
    /\ anchor_time = 0 /\ transcript_text = <<>> /\ prompt = <<>>
    /\ response_json = NoText /\ ret_start = 0 /\ ret_end = 0 /\ meta = <<>>
    /\ raised = "none" /\ calls = 0 /\ requests = 0 /\ console = <<>>

RefineInit ==
    /\ pc = "start"
    /\ docs \in RefineDocLists
    /\ \E w \in RefineWindows : initial_start = w[1] /\ initial_end = w[2]
    /\ anchor_time \in RefineAnchors
    /\ transcript_text = <<>> /\ prompt = <<>>
    /\ response_json = NoText /\ ret_start = 0 /\ ret_end = 0 /\ meta = <<>>
    /\ raised = "none" /\ calls = 0 /\ requests = 0 /\ console = <<>>

\* the function returns (s, e, m)
Returns(s, e, m) ==
    /\ ret_start' = s /\ ret_end' = e /\ meta' = m
    /\ pc' = "done"

\* lines 150-154: the context window and its formatted transcript
BuildContext ==
    /\ pc = "start"
    /\ transcript_text' =
           _format_transcript_window(docs, window_start(initial_start),
                                     window_end(initial_end), default_chunk_size_seconds)
    /\ pc' = "guard"
    /\ UNCHANGED <<docs, initial_start, initial_end, anchor_time, prompt, response_json,
                   ret_start, ret_end, meta, raised, calls, requests, console>>
    /\ UNCHANGED <<fvars, tvars, ovars>>

\* lines 156-157
EmptyTranscript ==
    /\ pc = "guard"
    /\ too_short(transcript_text)
    /\ Returns(initial_start, initial_end, Meta1("error", <<"empty_transcript">>))
    /\ UNCHANGED <<docs, initial_start, initial_end, anchor_time, transcript_text, prompt,
                   response_json, raised, calls, requests, console>>
    /\ UNCHANGED <<fvars, tvars, ovars>>

\* lines 160-164
BuildPrompt ==
    /\ pc = "guard"
    /\ ~too_short(transcript_text)
    /\ prompt' = [anchor_time_str |-> anchor_str(anchor_time), transcript |-> transcript_text]
    /\ pc' = "call"
    /\ UNCHANGED <<docs, initial_start, initial_end, anchor_time, transcript_text,
                   response_json, ret_start, ret_end, meta, raised, calls, requests, console>>
    /\ UNCHANGED <<fvars, tvars, ovars>>

\* call_gemini_flash, lines 57-61: the SDK is not installed
CallImportError ==
    /\ pc = "call"
    /\ calls' = calls + 1
    /\ console' = Append(console, "google-genai not installed")
    /\ response_json' = EmptyText
    /\ pc' = "returned"
    /\ UNCHANGED <<docs, initial_start, initial_end, anchor_time, transcript_text, prompt,
                   ret_start, ret_end, meta, raised, requests>>
    /\ UNCHANGED <<fvars, tvars, ovars>>

\* call_gemini_flash, lines 63-66: no API key in the environment
CallNoApiKey ==
    /\ pc = "call"
    /\ calls' = calls + 1
    /\ console' = Append(console, "GEMINI_API_KEY not set")
    /\ response_json' = EmptyText
    /\ pc' = "returned"
    /\ UNCHANGED <<docs, initial_start, initial_end, anchor_time, transcript_text, prompt,
                   ret_start, ret_end, meta, raised, requests>>
    /\ UNCHANGED <<fvars, tvars, ovars>>

\* call_gemini_flash, lines 68-83: generate_content raises
CallApiError ==
    /\ pc = "call"
    /\ calls' = calls + 1
    /\ requests' = requests + 1
    /\ console' = Append(console, "Gemini API error")
    /\ response_json' = EmptyText
    /\ pc' = "returned"
    /\ UNCHANGED <<docs, initial_start, initial_end, anchor_time, transcript_text, prompt,
                   ret_start, ret_end, meta, raised>>
    /\ UNCHANGED <<fvars, tvars, ovars>>

\* call_gemini_flash, lines 68-80: generate_content answers with response.text
CallResponse ==
    /\ pc = "call"
    /\ calls' = calls + 1
    /\ requests' = requests + 1
    /\ \E text \in ResponseTexts : response_json' = text
    /\ pc' = "returned"
    /\ UNCHANGED <<docs, initial_start, initial_end, anchor_time, transcript_text, prompt,
                   ret_start, ret_end, meta, raised, console>>
    /\ UNCHANGED <<fvars, tvars, ovars>>

\* lines 168-198
AfterCall ==
    /\ pc = "returned"
    /\ LET r == after_call(response_json, initial_start, initial_end, anchor_time)
       IN  IF r.exc = "none"
           THEN /\ Returns(r.start, r.end, r.meta)
                /\ console' = IF handled(response_json, initial_start, initial_end,
                                         anchor_time)
                              THEN Append(console, "JSON parse error in refine_clip")
                              ELSE console
                /\ UNCHANGED raised
           ELSE /\ raised' = r.exc
                /\ pc' = "done"
                /\ UNCHANGED <<ret_start, ret_end, meta, console>>
    /\ UNCHANGED <<docs, initial_start, initial_end, anchor_time, transcript_text, prompt,
                   response_json, calls, requests>>
    /\ UNCHANGED <<fvars, tvars, ovars>>

Next ==
    \/ BuildContext
    \/ EmptyTranscript
    \/ BuildPrompt
    \/ CallImportError
    \/ CallNoApiKey
    \/ CallApiError
    \/ CallResponse
    \/ AfterCall

Init == RefineInit /\ FormatIdle /\ TranscribeIdle /\ ScriptsIdle

Spec == Init /\ [][Next]_vars

\* ------------------------------------------------------------------------
\* Claims about refine_clip_boundaries
\* ------------------------------------------------------------------------
StatusOf(m) == IF "status" \in DOMAIN m THEN m["status"] ELSE <<"-">>
ErrorOf(m) == IF "error" \in DOMAIN m THEN m["error"] ELSE <<"-">>

Returned == pc = "done" /\ raised = "none"
ReturnedHeuristic == ret_start = initial_start /\ ret_end = initial_end

\* the model answered with a JSON object
ObjectReply ==
    /\ calls = 1
    /\ response_json.kind = "json"
    /\ response_json.value[1] = "object"
Reply == response_json.value[2]

\* the field is a number, written as a JSON number or as a numeric string
IsNumber(v) == v[1] \in {"num", "numstr"}
Negative(v) == IsNumber(v) /\ v[2] < 0
FarFrom(v, anchor) ==
    IsNumber(v) /\ (v[2] - anchor > 180 \/ anchor - v[2] > 180)
Carried(v) == IF v = Absent THEN PyNone ELSE v

C2_EndAfterStart == Returned => ret_end > ret_start

\* C2 amended: the returned pair has end > start whenever the result is
\* tagged refined or the heuristic window passed in has
\* initial_end > initial_start; every other result is the heuristic window
\* itself, unchanged.
C2_EndAfterStartAmended ==
    Returned =>
        /\ (StatusOf(meta) = <<"refined">> \/ initial_end > initial_start)
              => ret_end > ret_start
        /\ StatusOf(meta) # <<"refined">> => ReturnedHeuristic

\* C2 witness: a refined result returned for an inverted or zero-width
\* heuristic window.
C2_Witness ==
    /\ Returned
    /\ StatusOf(meta) = <<"refined">>
    /\ initial_end <= initial_start
    /\ ret_end > ret_start

\* C3: a reply with start_time or end_time more than 180 s from anchor_time
\* makes the function return the heuristic window, never the model's; when
\* the reply is otherwise valid the metadata is {error: hallucinated_timestamps}.
C3_HallucinationGuard ==
    (Returned /\ ObjectReply
        /\ (FarFrom(Reply.start_time, anchor_time) \/ FarFrom(Reply.end_time, anchor_time)))
    => /\ ReturnedHeuristic
       /\ StatusOf(meta) # <<"refined">>
       /\ (/\ IsNumber(Reply.start_time) /\ IsNumber(Reply.end_time)
           /\ Reply.start_time[2] >= 0 /\ Reply.end_time[2] >= 0
           /\ Reply.end_time[2] > Reply.start_time[2])
          => (DOMAIN meta = {"error"} /\ meta["error"] = <<"hallucinated_timestamps">>)

\* C3 witness: start_time within 180 s of the anchor, end_time 181 s after it.
C3_Witness ==
    /\ Returned /\ ObjectReply
    /\ IsNumber(Reply.start_time) /\ IsNumber(Reply.end_time)
    /\ Reply.start_time[2] >= 0
    /\ ~FarFrom(Reply.start_time, anchor_time)
    /\ Reply.end_time[2] - anchor_time = 181
    /\ ErrorOf(meta) = <<"hallucinated_timestamps">>
    /\ ReturnedHeuristic

\* C4: a reply with 0 <= start_time < end_time, both at most 180 s from the
\* anchor, is returned as (float(start_time), float(end_time)) with status
\* refined and the reply's title, category and reasoning.
C4_Acceptance ==
    (Returned /\ ObjectReply
        /\ IsNumber(Reply.start_time) /\ IsNumber(Reply.end_time)
        /\ 0 <= Reply.start_time[2] /\ Reply.start_time[2] < Reply.end_time[2]
        /\ ~FarFrom(Reply.start_time, anchor_time)
        /\ ~FarFrom(Reply.end_time, anchor_time))
    => /\ ret_start = Reply.start_time[2]
       /\ ret_end = Reply.end_time[2]
       /\ DOMAIN meta = {"status", "title", "category", "reasoning"}
       /\ meta["status"] = <<"refined">>
       /\ meta["title"] = Carried(Reply.title)
       /\ meta["category"] = Carried(Reply.category)
       /\ meta["reasoning"] = Carried(Reply.reasoning)

\* C4 witness: start_time=10, end_time=50, reasoning="x", anchor 30 gives
\* (10, 50, refined) although the heuristic window was (200, 260).
C4_Witness ==
    /\ Returned
    /\ anchor_time = 30
    /\ initial_start = 200 /\ initial_end = 260
    /\ response_json = JsonText(JObject(JNum(10), JNum(50), JStr("x"), Absent, Absent))
    /\ ret_start = 10 /\ ret_end = 50
    /\ meta["status"] = <<"refined">>
    /\ meta["reasoning"] = JStr("x")

RejectedWithReason ==
    /\ ReturnedHeuristic
    /\ DOMAIN meta = {"status", "reason"}
    /\ meta["status"] = <<"rejected_by_llm">>
    /\ meta["reason"] = Carried(Reply.reasoning)

\* C5 as stated: a negative start_time or end_time gives the heuristic window
\* with status rejected_by_llm and the reasoning, whatever the other field is.
C5_Rejection ==
    (Returned /\ ObjectReply
        /\ (Negative(Reply.start_time) \/ Negative(Reply.end_time)))
    => RejectedWithReason

\* float() accepts the field, or the field is absent and defaults to -1
Converts(v) == IsNumber(v) \/ v = Absent

\* C5 amended: a negative start_time or end_time gives the heuristic window
\* with status rejected_by_llm and the reasoning, provided the other field is
\* absent or converts to a number; with a null or non-numeric other field the
\* conversion fails first and the result is tagged json_parse_error.
C5_RejectionAmended ==
    (Returned /\ ObjectReply
        /\ (Negative(Reply.start_time) \/ Negative(Reply.end_time)))
    => IF Converts(Reply.start_time) /\ Converts(Reply.end_time)
       THEN RejectedWithReason
       ELSE ReturnedHeuristic /\ ErrorOf(meta) = <<"json_parse_error">>

\* C5 witness: end_time = -1 with a valid start_time and a reasoning text.
C5_Witness ==
    /\ Returned /\ ObjectReply
    /\ IsNumber(Reply.start_time) /\ Reply.start_time[2] >= 0
    /\ Negative(Reply.end_time)
    /\ Reply.reasoning = JStr("x")
    /\ RejectedWithReason

ContextTranscript ==
    _format_transcript_window(docs, Max(0, initial_start - context_pad),
                              initial_end + context_pad, default_chunk_size_seconds)

\* C6: with a context transcript that is empty or shorter than 50 characters
\* the function returns the heuristic window with error empty_transcript and
\* never calls the model; otherwise it calls the model exactly once, and no
\* validation result exists before that call.
C6_GuardBeforeSingleCall ==
    /\ calls <= 1 /\ requests <= calls
    /\ pc # "done" => meta = <<>>
    /\ pc = "done" =>
          IF ContextTranscript = <<>> \/ Len(ContextTranscript) < 50
          THEN /\ calls = 0 /\ requests = 0
               /\ ReturnedHeuristic
               /\ DOMAIN meta = {"error"} /\ meta["error"] = <<"empty_transcript">>
          ELSE /\ calls = 1
               /\ ErrorOf(meta) # <<"empty_transcript">>

\* C6 witness: a transcript of 49 characters was turned away without a call.
C6_Witness ==
    /\ pc = "done"
    /\ Len(ContextTranscript) = 49
    /\ calls = 0
    /\ ErrorOf(meta) = <<"empty_transcript">>

\* ------------------------------------------------------------------------
\* Specification SpecFormat: _format_transcript_window called directly on a
\* time-ordered list of WindowDocs
\* ------------------------------------------------------------------------
WindowDoc(start, end, text) == [start |-> start, end |-> end, text |-> text]

FormatTimes == 0..MaxTime
FormatTexts == {PyNone, <<" ">>, <<" ", "a">>}
FormatChunks == {1, 2}
FormatWindows == {<<0, MaxTime>>, <<1, 2>>, <<MaxTime, MaxTime>>}
FormatDocs ==
    {WindowDoc(s, e, t) : s \in FormatTimes, e \in FormatTimes, t \in FormatTexts}

FormatInit ==
    /\ fpc = "load"
    /\ fdocs = <<>>
    /\ \E w \in FormatWindows : fstart = w[1] /\ fend = w[2]
    /\ fchunk \in FormatChunks
    /\ flines = <<>>
    /\ formatted = <<>>

\* the upstream loader hands over one more segment, in time order
LoadDoc ==
    /\ fpc = "load"
    /\ Len(fdocs) < MaxDocs
    /\ \E d \in FormatDocs :
        /\ d.start <= d.end
        /\ fdocs # <<>> => fdocs[Len(fdocs)].start <= d.start
        /\ fdocs' = Append(fdocs, d)
    /\ UNCHANGED <<fpc, fstart, fend, fchunk, flines, formatted>>
    /\ UNCHANGED <<rvars, tvars, ovars>>

FormatCall ==
    /\ fpc = "load"
    /\ flines' = FormatBlocks(fdocs, fstart, fend, fchunk)
    /\ formatted' = _format_transcript_window(fdocs, fstart, fend,
                                              fchunk)
    /\ fpc' = "done"
    /\ UNCHANGED <<fdocs, fstart, fend, fchunk>>
    /\ UNCHANGED <<rvars, tvars, ovars>>

FormatNext == LoadDoc \/ FormatCall

InitFormat == FormatInit /\ RefineIdle /\ TranscribeIdle /\ ScriptsIdle

SpecFormat == InitFormat /\ [][FormatNext]_vars

\* ------------------------------------------------------------------------
\* Claims about _format_transcript_window
\* ------------------------------------------------------------------------
\* the span a block stands for: printed start to the end of the last segment
\* merged into it
BlockSpan(b) == b.segs[Len(b.segs)].end - b.start

SingleOversized(b, chunk) ==
    Len(b.segs) = 1 /\ b.segs[1].end - b.segs[1].start > chunk

\* C7: every emitted block spans at most chunk_size_seconds from its printed
\* start to the end of its last segment, unless it is one segment that is
\* itself longer than chunk_size_seconds (segments with empty text included).
C7_ChunkBound ==
    fpc = "done" =>
        \A i \in 1..Len(flines) :
            BlockSpan(flines[i]) <= fchunk \/ SingleOversized(flines[i], fchunk)

NoOverlap(segments, ws, we) ==
    \A i \in 1..Len(segments) : ~(segments[i].end >= ws /\ segments[i].start <= we)

\* C8: when no segment overlaps [window_start, window_end] the formatter
\* returns the empty string.
C8_NoOverlapEmpty ==
    (fpc = "done" /\ NoOverlap(fdocs, fstart, fend)) => formatted = <<>>

\* C8 witness: a non-empty list none of whose segments overlaps the window,
\* with segments carrying text on both sides of it, has been formatted.
C8_Witness ==
    /\ fpc = "done"
    /\ NoOverlap(fdocs, fstart, fend)
    /\ \E i \in 1..Len(fdocs) :
          fdocs[i].end < fstart /\ StripText(fdocs[i].text) # <<>>
    /\ \E i \in 1..Len(fdocs) :
          fdocs[i].start > fend /\ StripText(fdocs[i].text) # <<>>

\* ------------------------------------------------------------------------
\* transcribe_audio_file: the response text and its parsing
\* ------------------------------------------------------------------------
\* The response text is a sequence of tokens: the fence "```json", the fence
\* "```", a run of text that is no JSON, or the spelling of one JSON value.
FenceJson == <<"fence_json">>
Fence == <<"fence">>
Junk == <<"junk">>
JsonTok(v) == <<"json", v>>

JList(items) == <<"list", items>>
\* {"segments": x}; Absent for an object without the key
SegmentsObject(x) == <<"object", [segments |-> x]>>
\* one element of "segments": {"start": s, "end": e, "text": t}
SegmentItem(s, e, t) == <<"object", [start |-> s, end |-> e, text |-> t]>>

\* json.loads(text): one JSON value, whitespace around it allowed
loads_tokens(text) ==
    IF Len(text) = 1 /\ text[1][1] = "json"
    THEN Ok(text[1][2])
    ELSE Raise("JSONDecodeError")

\* result_json.get("segments", [])
get_segments(result_json) ==
    IF IsObject(result_json)
    THEN Ok(dict_get(result_json, "segments", JList(<<>>)))
    ELSE Raise("AttributeError")

\* sep in text
contains(text, sep) == \E i \in 1..Len(text) : text[i] = sep

RECURSIVE split(_, _)
\* text.split(sep)
split(text, sep) ==
    IF ~contains(text, sep) THEN <<text>>
    ELSE LET i == CHOOSE k \in 1..Len(text) :
                      text[k] = sep /\ \A j \in 1..(k - 1) : text[j] # sep
         IN  <<SubSeq(text, 1, i - 1)>> \o split(SubSeq(text, i + 1, Len(text)), sep)

\* lines 115-119: the text between the code fences
strip_fences(text) ==
    IF contains(text, FenceJson)
    THEN split(split(text, FenceJson)[2], Fence)[1]
    ELSE IF contains(text, Fence)
         THEN split(split(text, Fence)[2], Fence)[1]
         ELSE text

\* lines 109-110: [exc, value] of the direct parse
parse_direct(text) ==
    LET parsed == loads_tokens(text)
    IN  IF parsed.exc # "none" THEN parsed ELSE get_segments(parsed.value)

\* lines 115-121: [exc, value] of the parse after stripping the fences
parse_fenced(text) ==
    LET parsed == loads_tokens(strip_fences(text))
    IN  IF parsed.exc # "none" THEN parsed ELSE get_segments(parsed.value)

\* lines 125-133: the raw text as one segment of zero length
raw_fallback(text) ==
    [text |-> text, language |-> "en",
     segments |-> <<[start |-> 0, end |-> 0, text |-> text]>>]

\* str(v): the characters of a JSON string, "None" for a missing value
str(v) == IF v[1] = "str" THEN v[2] ELSE <<"N", "o", "n", "e">>

\* lines 147-157, one pass of the loop body: the segment to keep (or none),
\* or the exception thrown
format_one(s) ==
    IF ~IsObject(s) THEN Raise("AttributeError")
    ELSE LET fs == float(dict_get(s, "start", JNum(0)))
         IN  IF fs.exc # "none" THEN fs
             ELSE LET fe == float(dict_get(s, "end", JNum(0)))
                  IN  IF fe.exc # "none" THEN fe
                      ELSE LET text == LStrip(RStrip(str(dict_get(s, "text", JStr(<<>>)))))
                           IN  Ok(IF text = <<>> THEN <<>>
                                  ELSE <<[start |-> fs.value, end |-> fe.value,
                                          text |-> text]>>)

RECURSIVE format_items(_, _)
\* the for loop over a list of segments; acc is formatted_segments
format_items(items, acc) ==
    IF items = <<>> THEN Ok(acc)
    ELSE LET one == format_one(Head(items))
         IN  IF one.exc # "none" THEN one
             ELSE format_items(Tail(items), acc \o one.value)

\* lines 143-163: the formatted result, or the exception thrown
format_segments(segs) ==
    CASE segs[1] = "list" ->
           LET r == format_items(segs[2], <<>>)
           IN  IF r.exc # "none" THEN r
               ELSE Ok([text |-> Join(<<" ">>, [i \in 1..Len(r.value) |-> r.value[i].text]),
                        language |-> "en",
                        segments |-> r.value])
      [] segs[1] = "str" -> Raise("AttributeError")
      [] OTHER -> Raise("TypeError")

\* ------------------------------------------------------------------------
\* Specification SpecTranscribe: one invocation of transcribe_audio_file
\* ------------------------------------------------------------------------
GoodItem == SegmentItem(JNum(0), JNum(2), JStr(<<"h", "i", " ">>))
BlankItem == SegmentItem(JNum(2), JNum(3), JStr(<<" ">>))
BadStartItem == SegmentItem(JStr(<<"x">>), JNum(3), JStr(<<"y">>))

SegmentsValues ==
    { Absent, JNull, JStr(<<"a", "b">>), JList(<<>>), JList(<<GoodItem>>),
      JList(<<GoodItem, BlankItem>>), JList(<<JNum(1)>>), JList(<<BadStartItem>>) }
TranscriptJson ==
    {JArray, JNull, JNum(0)} \cup {SegmentsObject(x) : x \in SegmentsValues}
Tokens == {FenceJson, Fence, Junk} \cup {JsonTok(v) : v \in TranscriptJson}
TranscribeTexts == UNION {[1..n -> Tokens] : n \in 0..MaxTokens}

FileStates == {"PROCESSING", "ACTIVE", "FAILED"}

TranscribeInit ==
    /\ tpc = "configure" /\ file_state = "NONE" /\ polls = 0 /\ uploaded = FALSE
    /\ generate_requests = 0 /\ response_text = <<>> /\ tsegments = <<>>
    /\ delete_attempts = 0 /\ deleted = FALSE /\ result = <<>>
    /\ traised = "none" /\ tlog = <<>>

TUnchanged == UNCHANGED <<fvars, rvars, ovars>>

\* the function raises e to its caller
TRaises(e) == traised' = e /\ tpc' = "done"

\* the except clause of lines 165-170: log, then raise e
TLogAndRaise(e) ==
    /\ tlog' = Append(tlog, "Gemini transcription error")
    /\ TRaises(e)

\* lines 23-32 and 52: _configure_genai
Configure ==
    /\ tpc = "configure"
    /\ \/ tpc' = "exists" /\ UNCHANGED traised
       \/ TRaises("ImportError")
       \/ TRaises("ValueError")
    /\ UNCHANGED <<file_state, polls, uploaded, generate_requests, response_text,
                   tsegments, delete_attempts, deleted, result, tlog>>
    /\ TUnchanged

\* lines 54-55
CheckExists ==
    /\ tpc = "exists"
    /\ \/ tpc' = "upload" /\ UNCHANGED traised
       \/ TRaises("FileNotFoundError")
    /\ UNCHANGED <<file_state, polls, uploaded, generate_requests, response_text,
                   tsegments, delete_attempts, deleted, result, tlog>>
    /\ TUnchanged

\* line 61: genai.upload_file
Upload ==
    /\ tpc = "upload"
    /\ \E st \in FileStates : file_state' = st
    /\ uploaded' = TRUE
    /\ tpc' = "poll"
    /\ UNCHANGED <<polls, generate_requests, response_text, tsegments, delete_attempts,
                   deleted, result, traised, tlog>>
    /\ TUnchanged

\* line 61: genai.upload_file raises
UploadError ==
    /\ tpc = "upload"
    /\ TLogAndRaise("UploadError")
    /\ UNCHANGED <<file_state, polls, uploaded, generate_requests, response_text,
                   tsegments, delete_attempts, deleted, result>>
    /\ TUnchanged

\* a failure test that never fires
processing_failed_never(state_name) == FALSE

\* line 64: while audio_file.state.name == "PROCESSING"
still_processing(state_name) == state_name = "PROCESSING"

\* line 68: if audio_file.state.name == "FAILED"
processing_failed(state_name) == state_name = "FAILED"

\* lines 64-66: one turn of the polling loop, genai.get_file answers
Poll ==
    /\ tpc = "poll"
    /\ still_processing(file_state)
    /\ \E st \in FileStates : file_state' = st
    /\ polls' = IF polls < MaxPolls THEN polls + 1 ELSE polls
    /\ UNCHANGED <<tpc, uploaded, generate_requests, response_text, tsegments,
                   delete_attempts, deleted, result, traised, tlog>>
    /\ TUnchanged

\* lines 64-66: one turn of the polling loop, genai.get_file raises
PollError ==
    /\ tpc = "poll"
    /\ still_processing(file_state)
    /\ polls' = IF polls < MaxPolls THEN polls + 1 ELSE polls
    /\ TLogAndRaise("GetFileError")
    /\ UNCHANGED <<file_state, uploaded, generate_requests, response_text, tsegments,
                   delete_attempts, deleted, result>>
    /\ TUnchanged

\* lines 68-69
ProcessingFailed ==
    /\ tpc = "poll"
    /\ ~still_processing(file_state)
    /\ processing_failed(file_state)
    /\ TLogAndRaise("RuntimeError")
    /\ UNCHANGED <<file_state, polls, uploaded, generate_requests, response_text,
                   tsegments, delete_attempts, deleted, result>>
    /\ TUnchanged

\* lines 73-105: generate_content answers with response.text
Generate ==
    /\ tpc = "poll"
    /\ ~still_processing(file_state)
    /\ ~processing_failed(file_state)
    /\ generate_requests' = generate_requests + 1
    /\ response_text' \in TranscribeTexts
    /\ tpc' = "parse"
    /\ UNCHANGED <<file_state, polls, uploaded, tsegments, delete_attempts, deleted,
                   result, traised, tlog>>
    /\ TUnchanged

\* lines 96-105: generate_content raises
GenerateError ==
    /\ tpc = "poll"
    /\ ~still_processing(file_state)
    /\ ~processing_failed(file_state)
    /\ generate_requests' = generate_requests + 1
    /\ TLogAndRaise("APIError")
    /\ UNCHANGED <<file_state, polls, uploaded, response_text, tsegments,
                   delete_attempts, deleted, result>>
    /\ TUnchanged

\* the inner handler of line 111 catches json.JSONDecodeError only
caught_by_inner(exc) == exc = "JSONDecodeError"

\* lines 108-112: the direct parse
ParseDirect ==
    /\ tpc = "parse"
    /\ LET r == parse_direct(response_text)
       IN  IF r.exc = "none"
           THEN /\ tsegments' = r.value /\ tpc' = "cleanup"
                /\ UNCHANGED <<traised, tlog>>
           ELSE IF caught_by_inner(r.exc)
           THEN /\ tlog' = Append(tlog, "Failed to parse Gemini JSON response")
                /\ tpc' = "fenced"
                /\ UNCHANGED <<tsegments, traised>>
           ELSE TLogAndRaise(r.exc) /\ UNCHANGED tsegments
    /\ UNCHANGED <<file_state, polls, uploaded, generate_requests, response_text,
                   delete_attempts, deleted, result>>
    /\ TUnchanged

\* lines 114-133: the parse after stripping the fences, or the raw-text result
ParseFenced ==
    /\ tpc = "fenced"
    /\ LET r == parse_fenced(response_text)
       IN  IF r.exc = "none"
           THEN /\ tsegments' = r.value /\ tpc' = "cleanup"
                /\ UNCHANGED <<result, tlog>>
           ELSE /\ tlog' = Append(tlog, "Could not recover JSON from Gemini response")
                /\ result' = raw_fallback(response_text)
                /\ tpc' = "done"
                /\ UNCHANGED tsegments
    /\ UNCHANGED <<file_state, polls, uploaded, generate_requests, response_text,
                   delete_attempts, deleted, traised>>
    /\ TUnchanged

\* lines 136-139: genai.delete_file, a failure is swallowed
Cleanup ==
    /\ tpc = "cleanup"
    /\ delete_attempts' = delete_attempts + 1
    /\ \E ok \in BOOLEAN : deleted' = ok
    /\ tpc' = "format"
    /\ UNCHANGED <<file_state, polls, uploaded, generate_requests, response_text,
                   tsegments, result, traised, tlog>>
    /\ TUnchanged

\* lines 143-163
FormatResult ==
    /\ tpc = "format"
    /\ LET r == format_segments(tsegments)
       IN  IF r.exc = "none"
           THEN /\ result' = r.value /\ tpc' = "done"
                /\ UNCHANGED <<traised, tlog>>
           ELSE TLogAndRaise(r.exc) /\ UNCHANGED result
    /\ UNCHANGED <<file_state, polls, uploaded, generate_requests, response_text,
                   tsegments, delete_attempts, deleted>>
    /\ TUnchanged

TranscribeNext ==
    \/ Configure
    \/ CheckExists
    \/ Upload
    \/ UploadError
    \/ Poll
    \/ PollError
    \/ ProcessingFailed
    \/ Generate
    \/ GenerateError
    \/ ParseDirect
    \/ ParseFenced
    \/ Cleanup
    \/ FormatResult

InitTranscribe == TranscribeInit /\ FormatIdle /\ RefineIdle /\ ScriptsIdle

SpecTranscribe == InitTranscribe /\ [][TranscribeNext]_vars

\* the steps the function takes by itself once the remote file has left
\* PROCESSING: the code is sequential and each remote call returns or raises
AfterPolling ==
    \/ ProcessingFailed
    \/ Generate
    \/ GenerateError
    \/ ParseDirect
    \/ ParseFenced
    \/ Cleanup
    \/ FormatResult

SpecTranscribeFair ==
    InitTranscribe /\ [][TranscribeNext]_vars /\ WF_vars(AfterPolling)

\* ------------------------------------------------------------------------
\* Claims about transcribe_audio_file
\* ------------------------------------------------------------------------
\* generate_content answered with a response text
TextReceived == generate_requests = 1 /\ traised # "APIError" /\ tpc \notin {"poll"}
TFinished == tpc = "done"

\* the parse gave an object whose segments are a list of objects
UsableSegments(r) ==
    /\ r.exc = "none"
    /\ r.value[1] = "list"
    /\ \A i \in 1..Len(r.value[2]) : IsObject(r.value[2][i])

\* C9: once the model has returned a response text the function never raises
\* because of its content, and when neither the direct parse nor the parse
\* after stripping code fences yields an object with a list of segment
\* objects it returns {text: raw, language: "en", segments: [{0.0, 0.0, raw}]}.
C9_ParseFallback ==
    (TFinished /\ TextReceived) =>
        /\ traised = "none"
        /\ (/\ ~UsableSegments(parse_direct(response_text))
            /\ ~UsableSegments(parse_fenced(response_text)))
           => result = raw_fallback(response_text)

\* C10: whenever the file was uploaded and the model was asked to transcribe
\* it, a delete of the remote file has been attempted by the time the function
\* returns, and a failed delete neither raises nor changes the result.
C10_DeleteAttempted ==
    (TFinished /\ traised = "none" /\ uploaded /\ generate_requests = 1) =>
        /\ delete_attempts = 1
        /\ ~deleted => result = format_segments(tsegments).value

\* C11 as stated, its part about how the function ends: after an upload the
\* function has ended only if a state other than PROCESSING was observed; a
\* generation request follows only a state that is neither PROCESSING nor
\* FAILED; a FAILED state raises without a generation request.
C11_PollingLoop ==
    /\ (TFinished /\ uploaded) => ~still_processing(file_state)
    /\ generate_requests > 0 => file_state \notin {"NONE", "PROCESSING", "FAILED"}
    /\ (TFinished /\ file_state = "FAILED") =>
          (traised = "RuntimeError" /\ generate_requests = 0)

\* C11 amended: the remote state is re-fetched while and only while it is
\* PROCESSING, with no cap on the number of turns; once the file is uploaded
\* the function ends if a state other than PROCESSING is observed, and only
\* if one is observed or a re-fetch itself raises; a generation request
\* follows only a state that is neither PROCESSING nor FAILED; a FAILED state
\* raises without a generation request.
C11_PollingLoopAmended ==
    /\ [][(tpc = "poll" /\ file_state = "PROCESSING")
            => (tpc' = "poll" \/ traised' = "GetFileError")]_vars
    /\ [][(uploaded /\ (file_state' # file_state \/ polls' # polls))
            => file_state = "PROCESSING"]_vars
    /\ []((tpc = "poll" /\ file_state = "PROCESSING") => ENABLED Poll)
    /\ []((TFinished /\ uploaded)
            => (file_state # "PROCESSING" \/ traised = "GetFileError"))
    /\ ((tpc = "poll" /\ file_state # "PROCESSING") ~> TFinished)
    /\ [](generate_requests > 0 => file_state \notin {"NONE", "PROCESSING", "FAILED"})
    /\ []((TFinished /\ file_state = "FAILED")
            => (traised = "RuntimeError" /\ generate_requests = 0))

\* C11 witness: the file stayed PROCESSING for MaxPolls turns, then became
\* ACTIVE, one generation request was sent and the function returned.
C11_Witness ==
    /\ TFinished /\ traised = "none"
    /\ polls = MaxPolls
    /\ file_state = "ACTIVE"
    /\ generate_requests = 1

\* ------------------------------------------------------------------------
\* test_gemini_face_crop.py: _extract_json_object and the bounding box
\* ------------------------------------------------------------------------
\* Coordinates are counted in steps of 1/Unit: 0 is 0.0 and Unit is 1.0.
\* A bounding-box object holds, for each of the four keys, a JSON value or
\* Absent.
BoxObject(ymin, xmin, ymax, xmax) ==
    <<"object", [ymin |-> ymin, xmin |-> xmin, ymax |-> ymax, xmax |-> xmax]>>

\* the spelling of an object cut off before its closing brace,
\* {"ymin": 0.7, "xmin": 0.8, "ymax": 1
Truncated(obj) == <<"truncated", obj>>

Min(a, b) == IF a <= b THEN a ELSE b

\* line 19: raw_text.replace("```json", "").replace("```", "")
remove_fences(text) == SelectSeq(text, LAMBDA tok : tok \notin {FenceJson, Fence})

\* the token spells an opening brace, a closing brace
opens_brace(tok) == tok[1] = "truncated" \/ (tok[1] = "json" /\ IsObject(tok[2]))
closes_brace(tok) == tok[1] = "json" /\ IsObject(tok[2])

\* line 25: re.search(r"\{[\s\S]*\}", cleaned), the first opening brace up
\* to the last closing brace; <<>> when there is no match
brace_match(cleaned) ==
    LET opens == {i \in 1..Len(cleaned) : opens_brace(cleaned[i])}
        closes == {j \in 1..Len(cleaned) : closes_brace(cleaned[j])}
    IN  IF opens = {} \/ closes = {} THEN <<>>
        ELSE LET i == CHOOSE k \in opens : \A m \in opens : k <= m
                 j == CHOOSE k \in closes : \A m \in closes : k >= m
             IN  IF j >= i THEN SubSeq(cleaned, i, j) ELSE <<>>

\* "xmax" in repaired
mentions_xmax(cleaned) ==
    \E i \in 1..Len(cleaned) :
        cleaned[i][1] \in {"truncated", "json"} /\ IsObject(cleaned[i][2])
        /\ cleaned[i][2][2].xmax # Absent

\* the object has no member at all
no_members(obj) == \A key \in DOMAIN obj[2] : obj[2][key] = Absent

\* lines 29-36: the repair of a text that starts with "{" and has no "}"
repair(cleaned) ==
    IF Len(cleaned) # 1 \/ no_members(cleaned[1][2])
    THEN Raise("JSONDecodeError")
    ELSE IF mentions_xmax(cleaned)
         THEN Ok(cleaned[1][2])
         ELSE Ok(<<"object", [cleaned[1][2][2] EXCEPT !.xmax = JNum(Unit)]>>)

\* lines 17-38
_extract_json_object(raw_text) ==
    LET cleaned == remove_fences(raw_text)
        direct == loads_tokens(cleaned)
        match == brace_match(cleaned)
    IN  IF direct.exc = "none" THEN direct
        ELSE IF match = <<>>
             THEN IF cleaned # <<>> /\ cleaned[1][1] = "truncated"
                  THEN repair(cleaned)
                  ELSE Raise("JSONDecodeError")
             ELSE loads_tokens(match)

\* json_mode on every attempt
json_mode_always(n) == TRUE

\* line 76: json_mode=(attempt >= 2)
json_mode(n) == n >= 2

\* a clamp that forgets the upper end
clamp_lower_only(v) == Max(0, v)

\* lines 108-111: max(0.0, min(1.0, v))
clamp(v) == Max(0, Min(Unit, v))

\* a test that lets a box of no width or no height through
is_degenerate_strict(ymin, xmin, ymax, xmax) == ymax < ymin \/ xmax < xmin

\* line 113: if ymax <= ymin or xmax <= xmin
is_degenerate(ymin, xmin, ymax, xmax) == ymax <= ymin \/ xmax <= xmin

\* lines 103-111 on four numbers: the clamped box (ymin, xmin, ymax, xmax)
clamp_box(b) == <<clamp(b[1]), clamp(b[2]), clamp(b[3]), clamp(b[4])>>

\* lines 103-106: the four float(bbox.get(key, default)), in the order of
\* the code; the first one that raises decides
box_floats(parsed) ==
    IF ~IsObject(parsed) THEN Raise("AttributeError")
    ELSE LET ymin == float(dict_get(parsed, "ymin", JNum(0)))
             xmin == float(dict_get(parsed, "xmin", JNum(0)))
             ymax == float(dict_get(parsed, "ymax", JNum(Unit)))
             xmax == float(dict_get(parsed, "xmax", JNum(Unit)))
         IN  IF ymin.exc # "none" THEN Raise(ymin.exc)
             ELSE IF xmin.exc # "none" THEN Raise(xmin.exc)
             ELSE IF ymax.exc # "none" THEN Raise(ymax.exc)
             ELSE IF xmax.exc # "none" THEN Raise(xmax.exc)
             ELSE Ok(<<ymin.value, xmin.value, ymax.value, xmax.value>>)

\* ------------------------------------------------------------------------
\* test_multiple_images and test_gemini_crop_single
\* ------------------------------------------------------------------------
\* lines 149-155: the number of entries of test_images
test_images == 5
\* line 67: for attempt in range(1, 4)
max_attempts == 3

\* the bounding boxes the model is given to answer with
BoxObjects ==
    { BoxObject(Absent, Absent, Absent, Absent),
      BoxObject(JNum(0), JNum(1), JNum(1), JNum(Unit)),
      BoxObject(JNum(-1), JNum(-1), JNum(Unit + 1), JNum(Unit + 1)),
      BoxObject(JNum(0), JNum(Unit), JNum(Unit), JNum(Unit + 1)),
      BoxObject(JNum(Unit), JNum(0), JNum(0), JNum(Unit)),
      BoxObject(JNum(0), JNum(0), JNum(1), Absent),
      BoxObject(JStr(<<"t", "o", "p">>), JNum(0), JNum(Unit), JNum(Unit)) }
TruncatedObjects ==
    { BoxObject(Absent, Absent, Absent, Absent),
      BoxObject(JNum(0), JNum(1), JNum(1), JNum(Unit)),
      BoxObject(JNum(0), JNum(0), JNum(1), Absent) }
ReplyTokens ==
    {FenceJson, Fence, Junk, JsonTok(JNull), JsonTok(JArray)}
    \cup {JsonTok(o) : o \in BoxObjects}
    \cup {Truncated(o) : o \in TruncatedObjects}
\* the non-empty texts call_gemini_3_flash_vision returns
ReplyTexts == UNION {[1..n -> ReplyTokens] : n \in 1..MaxReplyTokens}

\* entries of results_summary
Success(i) == <<"ok", i>>
Failure(i, why) == <<"failed", i, why>>

FUnchanged == UNCHANGED <<fvars, rvars, tvars, kvars, dvars>>

\* lines 161-163: the summary is empty and the loop is at the first image
CropInit ==
    /\ bpc = "loop" /\ image = 1 /\ results_summary = <<>> /\ files = {}
    /\ cpc = "idle" /\ attempt = 0 /\ ccalls = 0 /\ modes = <<>>
    /\ bbox = PyNone /\ box = <<>> /\ cconsole = "none"

\* lines 165-168: the image file does not exist
ImageMissing ==
    /\ bpc = "loop" /\ cpc = "idle" /\ image <= test_images
    /\ results_summary' = Append(results_summary, Failure(image, "Image not found"))
    /\ image' = image + 1
    /\ UNCHANGED <<bpc, files, cpc, attempt, ccalls, modes, bbox, box, cconsole>>
    /\ FUnchanged

\* lines 170-172 and 43-46: the image exists, test_gemini_crop_single is
\* called
StartImage ==
    /\ bpc = "loop" /\ cpc = "idle" /\ image <= test_images
    /\ cpc' = "read"
    /\ UNCHANGED <<bpc, image, results_summary, files, attempt, ccalls, modes,
                   bbox, box, cconsole>>
    /\ FUnchanged

\* lines 48-65: the image is read, bbox = None
ReadImage ==
    /\ cpc = "read"
    /\ cpc' = "call" /\ attempt' = 1 /\ bbox' = PyNone
    /\ UNCHANGED <<bpc, image, results_summary, files, ccalls, modes, box, cconsole>>
    /\ FUnchanged

\* lines 51-53: reading the image raises
ReadError ==
    /\ cpc = "read"
    /\ cpc' = "returned" /\ cconsole' = "Failed to read image"
    /\ UNCHANGED <<bpc, image, results_summary, files, attempt, ccalls, modes,
                   bbox, box>>
    /\ FUnchanged

\* line 67: the loop goes to the next attempt, or ends after the last one
Continue ==
    /\ attempt' = attempt + 1
    /\ cpc' = IF attempt < max_attempts THEN "call" ELSE "check"

\* lines 68-80: the call raises
CallRaises ==
    /\ cpc = "call"
    /\ ccalls' = ccalls + 1
    /\ modes' = Append(modes, json_mode(attempt))
    /\ cconsole' = "Gemini call failed"
    /\ Continue
    /\ UNCHANGED <<bpc, image, results_summary, files, bbox, box>>
    /\ FUnchanged

\* lines 68-85: the call returns "" or None
CallEmpty ==
    /\ cpc = "call"
    /\ ccalls' = ccalls + 1
    /\ modes' = Append(modes, json_mode(attempt))
    /\ cconsole' = "Raw response"
    /\ Continue
    /\ UNCHANGED <<bpc, image, results_summary, files, bbox, box>>
    /\ FUnchanged

\* lines 68-91: the call returns a text, which is parsed
CallText ==
    /\ cpc = "call"
    /\ ccalls' = ccalls + 1
    /\ modes' = Append(modes, json_mode(attempt))
    /\ cconsole' = "Raw response"
    /\ \E response \in ReplyTexts :
          LET parsed == _extract_json_object(response)
          IN  IF parsed.exc = "none"
              THEN /\ bbox' = parsed.value
                   /\ cpc' = "check"
                   /\ UNCHANGED attempt
              ELSE /\ Continue
                   /\ UNCHANGED bbox
    /\ UNCHANGED <<bpc, image, results_summary, files, box>>
    /\ FUnchanged

\* lines 93-95
FailedAfterRetries ==
    /\ cpc = "check" /\ bbox = PyNone
    /\ cpc' = "returned"
    /\ cconsole' = "Failed to parse JSON response after retries."
    /\ UNCHANGED <<bpc, image, results_summary, files, attempt, ccalls, modes,
                   bbox, box>>
    /\ FUnchanged

\* lines 97-101 and 144-145: Image.open raises
OpenError ==
    /\ cpc = "check" /\ bbox # PyNone
    /\ cpc' = "returned" /\ cconsole' = "Error processing image"
    /\ UNCHANGED <<bpc, image, results_summary, files, attempt, ccalls, modes,
                   bbox, box>>
    /\ FUnchanged

\* lines 97-122: the four coordinates are converted and clamped, and a
\* degenerate box ends the call
Process ==
    /\ cpc = "check" /\ bbox # PyNone
    /\ LET floats == box_floats(bbox)
           clamped == clamp_box(floats.value)
       IN  IF floats.exc # "none"
           THEN /\ cpc' = "returned" /\ cconsole' = "Error processing image"
                /\ UNCHANGED box
           ELSE /\ box' = clamped
                /\ IF is_degenerate(clamped[1], clamped[2], clamped[3], clamped[4])
                   THEN /\ cpc' = "returned"
                        /\ cconsole' = "Invalid bbox coordinates returned by model."
                   ELSE /\ cpc' = "save_detection"
                        /\ cconsole' = "Pixel coords"
    /\ UNCHANGED <<bpc, image, results_summary, files, attempt, ccalls, modes, bbox>>
    /\ FUnchanged

\* lines 124-132: the detection picture is saved
SaveDetection ==
    /\ cpc = "save_detection"
    /\ files' = files \cup {<<image, "detection">>}
    /\ cpc' = "save_crop" /\ cconsole' = "Saved detection visualization"
    /\ UNCHANGED <<bpc, image, results_summary, attempt, ccalls, modes, bbox, box>>
    /\ FUnchanged

\* lines 124-131 and 144-145: mkdir, the drawing or img.save raises
SaveDetectionError ==
    /\ cpc = "save_detection"
    /\ cpc' = "returned" /\ cconsole' = "Error processing image"
    /\ UNCHANGED <<bpc, image, results_summary, files, attempt, ccalls, modes,
                   bbox, box>>
    /\ FUnchanged

\* lines 135-138: the crop is saved
SaveCrop ==
    /\ cpc = "save_crop"
    /\ files' = files \cup {<<image, "crop">>}
    /\ cpc' = "returned" /\ cconsole' = "Saved crop"
    /\ UNCHANGED <<bpc, image, results_summary, attempt, ccalls, modes, bbox, box>>
    /\ FUnchanged

\* lines 135-137 and 144-145: img.crop or crop.save raises
SaveCropError ==
    /\ cpc = "save_crop"
    /\ cpc' = "returned" /\ cconsole' = "Error processing image"
    /\ UNCHANGED <<bpc, image, results_summary, files, attempt, ccalls, modes,
                   bbox, box>>
    /\ FUnchanged

\* lines 172-173: test_gemini_crop_single has returned
FinishImage ==
    /\ bpc = "loop" /\ cpc = "returned"
    /\ results_summary' = Append(results_summary, Success(image))
    /\ image' = image + 1
    /\ cpc' = "idle" /\ attempt' = 0 /\ ccalls' = 0 /\ modes' = <<>>
    /\ bbox' = PyNone /\ box' = <<>> /\ cconsole' = "none"
    /\ UNCHANGED <<bpc, files>>
    /\ FUnchanged

\* lines 178-186: the loop is over, the summary is printed
PrintSummary ==
    /\ bpc = "loop" /\ cpc = "idle" /\ image > test_images
    /\ bpc' = "done"
    /\ UNCHANGED <<image, results_summary, files, cpc, attempt, ccalls, modes,
                   bbox, box, cconsole>>
    /\ FUnchanged

CropNext ==
    \/ ImageMissing
    \/ StartImage
    \/ ReadImage
    \/ ReadError
    \/ CallRaises
    \/ CallEmpty
    \/ CallText
    \/ FailedAfterRetries
    \/ OpenError
    \/ Process
    \/ SaveDetection
    \/ SaveDetectionError
    \/ SaveCrop
    \/ SaveCropError
    \/ FinishImage
    \/ PrintSummary

InitCrop == CropInit /\ ClampIdle /\ DownloadIdle /\ FormatIdle /\ RefineIdle /\ TranscribeIdle
SpecCrop == InitCrop /\ [][CropNext]_vars

\* test_gemini_crop_single is past its retry loop
PastLoop == cpc \in {"check", "save_detection", "save_crop", "returned"} /\ attempt >= 1
\* the loop ended with break: a response was parsed
Broke == PastLoop /\ attempt <= max_attempts

\* C12: the model calls of one invocation are attempts 1, 2, 3 in order, a
\* call that raises, answers nothing or answers text that does not parse
\* uses up one attempt, the loop is left only by the first response that
\* parses or after the third call, no call follows either, there is never a
\* fourth call, and json_mode is off on attempt 1 and on on attempts 2, 3.
C12_RetryProtocol ==
    /\ [](/\ ccalls <= max_attempts
          /\ Len(modes) = ccalls
          /\ \A k \in 1..Len(modes) : modes[k] = (k >= 2)
          /\ cpc = "call" => (attempt \in 1..max_attempts /\ ccalls = attempt - 1)
          /\ Broke => ccalls = attempt)
    /\ [][ccalls' > ccalls => (cpc = "call" /\ ccalls' = attempt)]_vars
    /\ [][(cpc = "call" /\ cpc' = "call") => attempt' = attempt + 1]_vars
    /\ [][(cpc = "call" /\ cpc' # "call")
            => (cpc' = "check"
                /\ (attempt' = attempt \/ (attempt = max_attempts /\ bbox' = PyNone)))]_vars
    /\ [][PastLoop => cpc' # "call"]_vars

\* C12 witness: two attempts failed and the third response parsed.
C12_Witness ==
    /\ cpc = "check" /\ ccalls = 3 /\ attempt = 3
    /\ modes = <<FALSE, TRUE, TRUE>>
    /\ bbox # PyNone

\* C13: "Failed to parse JSON response after retries." is printed only when
\* all three attempts were made and each failed, and an invocation that
\* stopped calling before attempt 3 has a parsed bounding box.
C13_FailedOnlyAfterBudget ==
    /\ cconsole = "Failed to parse JSON response after retries."
          => (ccalls = max_attempts /\ attempt = max_attempts + 1)
    /\ (PastLoop /\ ccalls < max_attempts) => (bbox # PyNone /\ IsObject(bbox))

\* the clamped box is inside the unit square and has width and height
ProperBox(b) ==
    /\ 0 <= b[2] /\ b[2] < b[4] /\ b[4] <= Unit
    /\ 0 <= b[1] /\ b[1] < b[3] /\ b[3] <= Unit

\* C14: a box that is degenerate after clamping writes neither the crop nor
\* the detection file; a crop is written only for a box with
\* 0 <= xmin < xmax <= 1 and 0 <= ymin < ymax <= 1, and only after the
\* detection file was written.
C14_DegenerateWritesNothing ==
    /\ [](\A i \in 1..test_images :
             <<i, "crop">> \in files => <<i, "detection">> \in files)
    /\ []((cpc # "idle" /\ box # <<>> /\ ~ProperBox(box))
             => (<<image, "crop">> \notin files /\ <<image, "detection">> \notin files))
    /\ []((cpc # "idle" /\ (<<image, "crop">> \in files \/ <<image, "detection">> \in files))
             => (box # <<>> /\ ProperBox(box)))
    /\ [][(files' # files /\ <<image, "crop">> \in files')
            => (<<image, "detection">> \in files /\ ProperBox(box))]_vars

\* C14 witness: the first image got its detection file and its crop, the
\* call for the second image ended on a box that is degenerate only after
\* clamping.
C14_Witness ==
    /\ <<1, "crop">> \in files /\ <<1, "detection">> \in files
    /\ image = 2 /\ cpc = "returned"
    /\ cconsole = "Invalid bbox coordinates returned by model."
    /\ box = <<0, Unit, Unit, Unit>>

\* C16: the summary gets one entry per image in input order, and an image
\* for which no crop was produced is entered as a failure, not a success.
C16_FailuresRecorded ==
    /\ (bpc # "idle" /\ cpc = "idle") => Len(results_summary) = image - 1
    /\ bpc = "done" => Len(results_summary) = test_images
    /\ \A k \in 1..Len(results_summary) :
          /\ results_summary[k][2] = k
          /\ results_summary[k][1] = "ok" => <<k, "crop">> \in files

\* ------------------------------------------------------------------------
\* the bounding-box clamp of test_gemini_crop_single on its own
\* ------------------------------------------------------------------------
\* coordinates from -1.0 to 2.0 in steps of 1/Unit
CoordRange == (0 - Unit)..(2 * Unit)
ClampBoxes == CoordRange \X CoordRange \X CoordRange \X CoordRange

KUnchanged == UNCHANGED <<fvars, rvars, tvars, cvars, dvars>>

\* lines 103-106: the four coordinates as floats
ClampInit ==
    /\ kpc = "start" /\ kbox \in ClampBoxes
    /\ kclamped = <<>> /\ kagain = <<>>

\* lines 108-111
ClampOnce ==
    /\ kpc = "start"
    /\ kclamped' = clamp_box(kbox)
    /\ kpc' = "clamped"
    /\ UNCHANGED <<kbox, kagain>>
    /\ KUnchanged

\* lines 108-111, on the box they produced
ClampAgain ==
    /\ kpc = "clamped"
    /\ kagain' = clamp_box(kclamped)
    /\ kpc' = "again"
    /\ UNCHANGED <<kbox, kclamped>>
    /\ KUnchanged

ClampNext == ClampOnce \/ ClampAgain

InitClamp == ClampInit /\ CropIdle /\ DownloadIdle /\ FormatIdle /\ RefineIdle /\ TranscribeIdle
SpecClamp == InitClamp /\ [][ClampNext]_vars

InUnit(b) == \A k \in 1..4 : 0 <= b[k] /\ b[k] <= Unit

\* C15: the clamp yields four values in [0, 1] for every box, clamping a
\* clamped box returns the same box, and a box already inside [0, 1] is
\* left unchanged.
C15_ClampIdempotent ==
    /\ kpc \in {"clamped", "again"} => (InUnit(kclamped) /\ (InUnit(kbox) => kclamped = kbox))
    /\ kpc = "again" => kagain = kclamped

\* C15 witness: a box with a coordinate below 0 and one above 1 was clamped
\* to a different box, and clamping that box again changed nothing.
C15_Witness ==
    /\ kpc = "again"
    /\ kbox = <<0 - Unit, 1, Unit, 2 * Unit>>
    /\ kclamped = <<0, 1, Unit, Unit>>
    /\ kagain = kclamped

\* the tags a result of refine_clip_boundaries carries
TagsOf(m) ==
    (IF "status" \in DOMAIN m THEN {m["status"]} ELSE {})
    \cup (IF "error" \in DOMAIN m THEN {m["error"]} ELSE {})
OneTag == Cardinality(DOMAIN meta \cap {"status", "error"}) = 1 /\ Cardinality(TagsOf(meta)) = 1
NonNegative(v) == IsNumber(v) /\ v[2] >= 0
Inverted(s, e) == NonNegative(s) /\ NonNegative(e) /\ e[2] <= s[2]

\* C17 as stated: a reply with a negative boundary is tagged rejected_by_llm
\* even if it is inverted or far from the anchor, a non-negative reply with
\* end_time <= start_time is tagged invalid_timestamps even if it is far
\* from the anchor, hallucinated_timestamps is given only to non-negative
\* ordered replies, and every reply gets exactly one tag.
C17_RuleOrder ==
    /\ Returned => OneTag
    /\ (Returned /\ ObjectReply) =>
          /\ (Negative(Reply.start_time) \/ Negative(Reply.end_time))
                => TagsOf(meta) = {<<"rejected_by_llm">>}
          /\ Inverted(Reply.start_time, Reply.end_time)
                => TagsOf(meta) = {<<"invalid_timestamps">>}
          /\ TagsOf(meta) = {<<"hallucinated_timestamps">>}
                => /\ NonNegative(Reply.start_time) /\ NonNegative(Reply.end_time)
                   /\ Reply.end_time[2] > Reply.start_time[2]

\* C17 amended: as stated for replies whose start_time and end_time are both
\* numbers (or absent, which counts as -1); when one boundary is negative
\* and the other is null or not a number the conversion fails before any
\* rule is applied and the tag is json_parse_error.
C17_RuleOrderAmended ==
    /\ Returned => OneTag
    /\ (Returned /\ ObjectReply) =>
          /\ (Negative(Reply.start_time) \/ Negative(Reply.end_time))
                => TagsOf(meta) = (IF Converts(Reply.start_time) /\ Converts(Reply.end_time)
                                   THEN {<<"rejected_by_llm">>}
                                   ELSE {<<"json_parse_error">>})
          /\ Inverted(Reply.start_time, Reply.end_time)
                => TagsOf(meta) = {<<"invalid_timestamps">>}
          /\ TagsOf(meta) = {<<"hallucinated_timestamps">>}
                => /\ NonNegative(Reply.start_time) /\ NonNegative(Reply.end_time)
                   /\ Reply.end_time[2] > Reply.start_time[2]

\* C17 witness: start_time 211 is 181 s from the anchor 30 and after
\* end_time, which is -1: the reply is negative, inverted and far, and is
\* tagged rejected_by_llm.
C17_Witness ==
    /\ Returned /\ ObjectReply
    /\ anchor_time = 30
    /\ Reply.start_time = JNum(211) /\ Reply.end_time = JNum(-1)
    /\ TagsOf(meta) = {<<"rejected_by_llm">>}
    /\ ReturnedHeuristic

RECURSIVE Concat(_)
Concat(seqs) == IF seqs = <<>> THEN <<>> ELSE Head(seqs) \o Concat(Tail(seqs))

\* the selected segments whose stripped text is not empty, in input order
SpokenDocs(segments, ws, we) ==
    SelectSeq(relevant_docs(segments, ws, we), LAMBDA d : StripText(d.text) # <<>>)

\* C19: the timestamp at the head of each emitted block is the start of the
\* first segment whose text is in the block, and the texts of the selected
\* non-empty segments appear once each, in input order, across the blocks,
\* also when the leading segments of the window have no text.
C19_FaithfulAnchors ==
    fpc = "done" =>
        /\ \A i \in 1..Len(flines) : flines[i].start = flines[i].segs[1].start
        /\ Concat([i \in 1..Len(flines) |-> flines[i].segs]) = SpokenDocs(fdocs, fstart, fend)
        /\ Concat([i \in 1..Len(flines) |-> flines[i].texts])
              = [k \in 1..Len(SpokenDocs(fdocs, fstart, fend)) |->
                    StripText(SpokenDocs(fdocs, fstart, fend)[k].text)]

\* ------------------------------------------------------------------------
\* test_audio_refiner.py: download_audio_segment
\* ------------------------------------------------------------------------
\* lines 24-30: seconds as HH:MM:SS
hms(seconds) ==
    TwoDigits(seconds \div 3600) \o <<":">> \o TwoDigits((seconds % 3600) \div 60)
    \o <<":">> \o TwoDigits(seconds % 60)

\* one argument of the command line that is a literal of the code
Arg(s) == <<s>>

\* lines 53-62: the list cmd; cmd[k] of the code is command(...)[k + 1]
command(twitch_cli, vod_id, start_str, end_str, output_path) ==
    << twitch_cli, Arg("videodownload"),
       Arg("--id"), vod_id,
       Arg("-b"), start_str,
       Arg("-e"), end_str,
       Arg("-o"), output_path,
       Arg("-q"), Arg("Audio"),
       Arg("--ffmpeg-path"), Arg("./executables/ffmpeg.exe") >>

\* line 74: cmd[7] = "360p"
fallback(c) == [c EXCEPT ![7 + 1] = Arg("360p")]

\* lines 68 and 77: result.returncode == 0 and output_path.exists()
succeeded(returncode, exists) == returncode = 0 /\ exists

VodIds == {Arg("2667506900"), Arg("2668385852")}
DownloadTimes == {0, 75, 3725}
ReturnCodes == {0, 1}
OutputPath == Arg("audio.mp4")

DUnchanged == UNCHANGED <<fvars, rvars, tvars, cvars, kvars>>

\* line 181: the call, made only when the output file does not exist
DownloadInit ==
    /\ dpc = "start"
    /\ dvod \in VodIds /\ dstart \in DownloadTimes /\ dend \in DownloadTimes
    /\ dfile = FALSE
    /\ cmd = <<>> /\ runs = <<>> /\ outcomes = <<>> /\ dreturn = "none"

\* lines 47-64
BuildCommand ==
    /\ dpc = "start"
    /\ cmd' = command(Arg("TwitchDownloaderCLI"), dvod, hms(dstart), hms(dend), OutputPath)
    /\ dpc' = "first"
    /\ UNCHANGED <<dvod, dstart, dend, dfile, runs, outcomes, dreturn>>
    /\ DUnchanged

\* lines 66-74: the first run ends; on failure the command is changed for
\* the second run
FirstRun ==
    /\ dpc = "first"
    /\ runs' = Append(runs, cmd)
    /\ \E returncode \in ReturnCodes, exists \in BOOLEAN :
          /\ dfile' = exists
          /\ outcomes' = Append(outcomes, <<returncode, exists>>)
          /\ IF succeeded(returncode, exists)
             THEN /\ dreturn' = "True" /\ dpc' = "done"
                  /\ UNCHANGED cmd
             ELSE /\ cmd' = fallback(cmd)
                  /\ dpc' = "second"
                  /\ UNCHANGED dreturn
    /\ UNCHANGED <<dvod, dstart, dend>>
    /\ DUnchanged

\* lines 67 and 82-84: subprocess.run raises (no executable, timeout)
FirstRunRaises ==
    /\ dpc = "first"
    /\ runs' = Append(runs, cmd)
    /\ outcomes' = Append(outcomes, <<"raised">>)
    /\ dfile' \in BOOLEAN
    /\ dreturn' = "False" /\ dpc' = "done"
    /\ UNCHANGED <<dvod, dstart, dend, cmd>>
    /\ DUnchanged

\* lines 75-81: the second run ends
SecondRun ==
    /\ dpc = "second"
    /\ runs' = Append(runs, cmd)
    /\ \E returncode \in ReturnCodes, exists \in BOOLEAN :
          /\ dfile' = exists
          /\ outcomes' = Append(outcomes, <<returncode, exists>>)
          /\ dreturn' = IF succeeded(returncode, exists) THEN "True" ELSE "False"
    /\ dpc' = "done"
    /\ UNCHANGED <<dvod, dstart, dend, cmd>>
    /\ DUnchanged

\* lines 75 and 82-84: the second subprocess.run raises
SecondRunRaises ==
    /\ dpc = "second"
    /\ runs' = Append(runs, cmd)
    /\ outcomes' = Append(outcomes, <<"raised">>)
    /\ dfile' \in BOOLEAN
    /\ dreturn' = "False" /\ dpc' = "done"
    /\ UNCHANGED <<dvod, dstart, dend, cmd>>
    /\ DUnchanged

DownloadNext ==
    \/ BuildCommand
    \/ FirstRun
    \/ FirstRunRaises
    \/ SecondRun
    \/ SecondRunRaises

InitDownload ==
    DownloadInit /\ CropIdle /\ ClampIdle /\ FormatIdle /\ RefineIdle /\ TranscribeIdle
SpecDownload == InitDownload /\ [][DownloadNext]_vars

\* the run ended with exit code 0 and the output file present
RunSucceeded(o) == o # <<"raised">> /\ o[1] = 0 /\ o[2]
\* position of the value of -q in the command line, counted from 1
QualityAt == 12

\* C18: when the first download fails exactly one second download is run,
\* with a command that differs from the first only in the quality, now
\* "360p"; the function returns True iff one of the at most two runs ended
\* with exit code 0 and the output file present.
C18_QualityFallback ==
    /\ Len(runs) <= 2
    /\ dpc = "done" => dreturn \in {"True", "False"}
    /\ dpc = "done" =>
          (dreturn = "True" <=> \E k \in 1..Len(outcomes) : RunSucceeded(outcomes[k]))
    /\ (dpc = "done" /\ ~RunSucceeded(outcomes[1])) => Len(runs) = 2
    /\ Len(runs) = 2 =>
          /\ runs[1][QualityAt] = Arg("Audio")
          /\ runs[2][QualityAt] = Arg("360p")
          /\ \A k \in 1..Len(runs[1]) : k # QualityAt => runs[2][k] = runs[1][k]

====
